---- MODULE Spec2Model ----
(***************************************************************************)
(* GenAIDeploymentReconciler (controllers) and the resource helpers of     *)
(* pkg/splunk/util: one reconciliation pass is a sequence of blocking      *)
(* calls on the cluster API client; every call is one atomic step here.    *)
(***************************************************************************)
EXTENDS Integers, Sequences, FiniteSets, TLC

\* ------------------------------------------------------------------ bounds
MaxPasses == 3      \* reconciliation passes started in one behaviour
MaxEdits == 1       \* user edits of a descriptor in one behaviour
MaxFaults == 1      \* transport/backend errors injected in one behaviour

Procs == {1, 2}     \* workers that may run Reconcile at the same time
Vals == {"a", "b"}  \* values of an opaque descriptor field
ReplicaVals == {1, 2}

\* ------------------------------------------------------------- data model
NoObj == [kind |-> "None"]
NoOwner == [kind |-> "NoOwner"]

\* the descriptor identities of the model: (name, namespace)
DescKeys == {<<"x", "ns1">>}

\* a *int32: the address of the variable it points to, and that variable's value
Ptr(a, v) == [addr |-> a, val |-> v]

\* GenAIDeploymentSpec as the user first writes it
InitialSpec(en) ==
  [RayService |-> [Enabled |-> en, Image |-> "a", HeadGroupNumCpus |-> "a",
                   HeadGroupResources |-> "a", WorkerGroupResources |-> "a",
                   Replicas |-> 1],
   SaisService |-> [Replicas |-> 1, Image |-> "a", Resources |-> "a",
                    Volume |-> [Name |-> "a"], SchedulerName |-> "a",
                    Affinity |-> "a", Tolerations |-> "a"],
   VectorDbService |-> [Replicas |-> 1, Image |-> "a", Resources |-> "a",
                        Volume |-> [Name |-> "a"], Affinity |-> "a",
                        Tolerations |-> "a", TopologySpreadConstraints |-> "a"]]

SubSpecs == {"RayService", "SaisService", "VectorDbService"}

\* the values a user can give a field of a sub-spec
FieldVals(f) ==
  IF f = "Enabled" THEN BOOLEAN
  ELSE IF f = "Replicas" THEN ReplicaVals
  ELSE IF f = "Volume" THEN {[Name |-> v] : v \in Vals}
  ELSE Vals

EmptyStatus == [ClusterName |-> "", State |-> "", Conditions |-> <<>>]

\* &rayv1.RayCluster{} : the zero object a Get decodes into
EmptyRayCluster ==
  [kind |-> "RayCluster", name |-> "", namespace |-> "", owner |-> NoOwner,
   rv |-> 0, spec |-> [empty |-> TRUE],
   status |-> [State |-> "", Conditions |-> <<>>]]

\* &appsv1.Deployment{}
EmptyDeployment ==
  [kind |-> "Deployment", name |-> "", namespace |-> "", owner |-> NoOwner,
   rv |-> 0, spec |-> [empty |-> TRUE],
   status |-> [State |-> "", Conditions |-> <<>>]]

\* ---------------------------------------------------- desired-state constructors
\* gd is a decoded descriptor object: name, namespace, spec, and addr, the
\* identity of the Go object, which the Replicas pointers point into.
constructRayCluster(gd) ==
  [kind |-> "RayCluster",
   name |-> gd.name \o "-raycluster",
   namespace |-> gd.namespace,
   owner |-> NoOwner,
   rv |-> 0,
   spec |-> [HeadGroupSpec |->
               [RayStartParams |-> [numcpus |-> gd.spec.RayService.HeadGroupNumCpus],
                Containers |-> << [Name |-> "ray-head",
                                   Image |-> gd.spec.RayService.Image,
                                   Resources |-> gd.spec.RayService.HeadGroupResources] >>],
             WorkerGroupSpecs |->
               << [GroupName |-> "ray-worker",
                   Replicas |-> Ptr(<<gd.addr, "RayService">>, gd.spec.RayService.Replicas),
                   Containers |-> << [Name |-> "ray-worker",
                                      Image |-> gd.spec.RayService.Image,
                                      Resources |-> gd.spec.RayService.WorkerGroupResources] >>] >>],
   status |-> [State |-> "", Conditions |-> <<>>]]

\* ctrl.SetControllerReference(genAIDeployment, deployment, r.Scheme)
SetControllerReference(gd, obj) ==
  [obj EXCEPT !.owner = [kind |-> "GenAIDeployment", name |-> gd.name,
                         namespace |-> gd.namespace]]

constructSaisServiceDeployment(gd) ==
  LET labels == [app |-> "sais-service", deployment |-> gd.name]
      deployment ==
        [kind |-> "Deployment",
         name |-> gd.name \o "-sais-service",
         namespace |-> gd.namespace,
         owner |-> NoOwner,
         rv |-> 0,
         spec |-> [Replicas |-> Ptr(<<gd.addr, "SaisService">>, gd.spec.SaisService.Replicas),
                   Selector |-> labels,
                   Labels |-> labels,
                   Containers |-> << [Name |-> "sais-service-container",
                                      Image |-> gd.spec.SaisService.Image,
                                      Resources |-> gd.spec.SaisService.Resources,
                                      VolumeMounts |-> << [Name |-> gd.spec.SaisService.Volume.Name,
                                                           MountPath |-> "/data"] >>] >>,
                   Volumes |-> << gd.spec.SaisService.Volume >>,
                   SchedulerName |-> gd.spec.SaisService.SchedulerName,
                   Affinity |-> gd.spec.SaisService.Affinity,
                   Tolerations |-> gd.spec.SaisService.Tolerations,
                   TopologySpreadConstraints |-> ""],
         status |-> [State |-> "", Conditions |-> <<>>]]
  IN  SetControllerReference(gd, deployment)

constructVectorDbDeployment(gd) ==
  LET labels == [app |-> "vectordb-service", deployment |-> gd.name]
      deployment ==
        [kind |-> "Deployment",
         name |-> gd.name \o "-vectordb-service",
         namespace |-> gd.namespace,
         owner |-> NoOwner,
         rv |-> 0,
         spec |-> [Replicas |-> Ptr(<<gd.addr, "VectorDbService">>, gd.spec.VectorDbService.Replicas),
                   Selector |-> labels,
                   Labels |-> labels,
                   Containers |-> << [Name |-> "vectordb-container",
                                      Image |-> gd.spec.VectorDbService.Image,
                                      Resources |-> gd.spec.VectorDbService.Resources,
                                      VolumeMounts |-> << [Name |-> gd.spec.VectorDbService.Volume.Name,
                                                           MountPath |-> "/data"] >>] >>,
                   Volumes |-> << gd.spec.VectorDbService.Volume >>,
                   SchedulerName |-> "",
                   Affinity |-> gd.spec.VectorDbService.Affinity,
                   Tolerations |-> gd.spec.VectorDbService.Tolerations,
                   TopologySpreadConstraints |-> gd.spec.VectorDbService.TopologySpreadConstraints],
         status |-> [State |-> "", Conditions |-> <<>>]]
  IN  SetControllerReference(gd, deployment)

\* isEqual compares the two Replicas POINTERS (not the values they point to)
\* and the image of the first container.
isEqual(desired, existing) ==
  /\ desired.spec.Replicas.addr = existing.spec.Replicas.addr
  /\ desired.spec.Containers[1].Image = existing.spec.Containers[1].Image

\* updateRayCluster returns the existing cluster as it is
updateRayCluster(existingCluster, gd) == existingCluster
\* ------------------------------------------------------------ the API client
\* An object on the wire and in the store holds the replica count itself;
\* a decoded Go object holds a pointer to a freshly allocated int32.
Encode(obj) ==
  IF obj.kind = "Deployment"
  THEN [obj EXCEPT !.spec.Replicas = @.val]
  ELSE [obj EXCEPT !.spec.WorkerGroupSpecs[1].Replicas = @.val]

Decode(w, a) ==
  IF w.kind = "Deployment"
  THEN [w EXCEPT !.spec.Replicas = Ptr(<<a, "decoded">>, @)]
  ELSE [w EXCEPT !.spec.WorkerGroupSpecs[1].Replicas = Ptr(<<a, "decoded">>, @)]

KeyOf(obj) == <<obj.kind, obj.name, obj.namespace>>

\* client.Get of a managed resource: the stored object or NotFound
ClientGet(st, key) ==
  IF key \in DOMAIN st THEN [res |-> "ok", obj |-> st[key]]
  ELSE [res |-> "NotFound", obj |-> NoObj]

\* client.Create: AlreadyExists when the key is taken
ClientCreate(st, obj) ==
  IF KeyOf(obj) \in DOMAIN st
  THEN [res |-> "AlreadyExists", store |-> st]
  ELSE [res |-> "ok",
        store |-> (KeyOf(obj) :> [Encode(obj) EXCEPT !.rv = 1]) @@ st]

\* client.Update: optimistic concurrency on the resource version; the
\* status sub-resource is not written by Update
ClientUpdate(st, obj) ==
  IF KeyOf(obj) \notin DOMAIN st THEN [res |-> "NotFound", store |-> st]
  ELSE IF st[KeyOf(obj)].rv # obj.rv THEN [res |-> "Conflict", store |-> st]
  ELSE [res |-> "ok",
        store |-> [st EXCEPT ![KeyOf(obj)] =
                     [Encode(obj) EXCEPT !.rv = obj.rv + 1,
                                         !.status = st[KeyOf(obj)].status]]]

\* the record of one client call of a pass
Call(op, kind, name, ns, res, obj) ==
  [op |-> op, kind |-> kind, name |-> name, namespace |-> ns, res |-> res,
   obj |-> obj]

\* ------------------------------------------------------------------- state
VARIABLES
  desc,               \* the descriptors in the store, by (name, namespace)
  store,              \* the managed resources in the store, by (kind, name, namespace)
  pc,                 \* position of each worker in Reconcile
  req,                \* ctrl.Request of the pass of each worker
  genAIDeployment,    \* the descriptor object a pass has fetched
  existing,           \* rayCluster / existingDeployment of the current step
  calls,              \* the client calls of the current pass, in order
  result,             \* what the last pass of each worker returned
  ctx,                \* what was known when the pass started
  last,               \* summary of the last pass that returned
  quiet,              \* no change from outside since that pass returned
  pending,            \* descriptor edits since the last pass started
  passes, edits, faults,  \* counters of the bounds
  diff,               \* two descriptor objects and the isEqual of their deployments
  util                \* the objects and the last call of the util resource helpers

vars == <<desc, store, pc, req, genAIDeployment, existing, calls, result,
          ctx, last, quiet, pending, passes, edits, faults, diff, util>>

NoPass == [key |-> <<>>, result |-> "none", rayCreated |-> FALSE, failedAt |-> "none"]
NoEdit == [n |-> 0, sub |-> "none", field |-> "none", converged |-> FALSE]

NoDiff == [g1 |-> NoObj, g2 |-> NoObj, cmp |-> NoObj]

NoUtil == [objs |-> << >>, last |-> NoObj]

\* the reconciler has started; the descriptors of keys exist, nothing else
InitOver(keys, used) ==
  /\ \E en \in BOOLEAN :
       desc = [k \in keys |-> [spec |-> InitialSpec(en), status |-> EmptyStatus, rv |-> 1]]
  /\ store = << >>
  /\ pc = [p \in Procs |-> "idle"]
  /\ req = [p \in Procs |-> <<"", "">>]
  /\ genAIDeployment = [p \in Procs |-> NoObj]
  /\ existing = [p \in Procs |-> NoObj]
  /\ calls = [p \in Procs |-> << >>]
  /\ result = [p \in Procs |-> "none"]
  /\ ctx = [p \in Procs |-> [prev |-> NoPass, quiet |-> FALSE, edit |-> NoEdit]]
  /\ last = NoPass
  /\ quiet = FALSE
  /\ pending = NoEdit
  /\ passes = 0
  /\ edits = 0
  /\ faults = used

InitState == InitOver(DescKeys, 0)

Init == InitState /\ diff = NoDiff /\ util = NoUtil
\* ---------------------------------------------------------------- helpers
FaultChoices == IF faults < MaxFaults THEN BOOLEAN ELSE {FALSE}

CountFault(f) == faults' = IF f THEN faults + 1 ELSE faults

Log(p, c) == calls' = [calls EXCEPT ![p] = Append(@, c)]

\* Reconcile goes on to its next client call
Goto(p, next) ==
  /\ pc' = [pc EXCEPT ![p] = next]
  /\ UNCHANGED <<result, last, quiet>>

\* Reconcile returns: res is "ok" for (ctrl.Result{}, nil), "err" for an error
Return(p, res, step, cs) ==
  /\ pc' = [pc EXCEPT ![p] = "done"]
  /\ result' = [result EXCEPT ![p] = res]
  /\ last' = [key |-> req[p], result |-> res,
              rayCreated |-> \E i \in 1..Len(cs) :
                               cs[i].op = "create" /\ cs[i].kind = "RayCluster" /\ cs[i].res = "ok",
              failedAt |-> IF res = "ok" THEN "none" ELSE step]
  /\ quiet' = TRUE

\* the descriptor k as a pass would fetch it into the Go object a
DescObj(k, a) ==
  [name |-> k[1], namespace |-> k[2], spec |-> desc[k].spec,
   status |-> desc[k].status, rv |-> desc[k].rv, addr |-> a]

\* the stored object has the spec the constructor gives for the descriptor
Matches(obj) ==
  /\ KeyOf(obj) \in DOMAIN store
  /\ store[KeyOf(obj)].spec = Encode(obj).spec

\* every enabled managed resource of k exists with its desired spec
Converged(k) ==
  /\ desc[k] # NoObj
  /\ LET gd == DescObj(k, 0) IN
       /\ gd.spec.RayService.Enabled => Matches(constructRayCluster(gd))
       /\ Matches(constructSaisServiceDeployment(gd))
       /\ Matches(constructVectorDbDeployment(gd))

\* ------------------------------------------------------------- Reconcile
\* client.IgnoreNotFound(err): what Reconcile returns when the fetch of the
\* descriptor failed
IgnoreNotFound_AllErrors(res) == "err"

IgnoreNotFound(res) == IF res = "NotFound" THEN "ok" ELSE "err"

\* if genAIDeployment.Spec.RayService.Enabled
RayServiceEnabled_Always(gd) == TRUE

RayServiceEnabled(gd) == gd.spec.RayService.Enabled

\* types.NamespacedName{Name: req.Name + "-raycluster", Namespace: req.Namespace}
RayClusterKey_OtherSuffix(r) == <<"RayCluster", r[1] \o "-ray", r[2]>>

RayClusterKey(r) == <<"RayCluster", r[1] \o "-raycluster", r[2]>>

\* the event dispatch invokes Reconcile for a descriptor identity
StartPass(p, k) ==
  /\ pc[p] \in {"idle", "done"}
  /\ passes < MaxPasses
  /\ passes' = passes + 1
  /\ pc' = [pc EXCEPT ![p] = "Fetch"]
  /\ req' = [req EXCEPT ![p] = k]
  /\ calls' = [calls EXCEPT ![p] = << >>]
  /\ genAIDeployment' = [genAIDeployment EXCEPT ![p] = NoObj]
  /\ existing' = [existing EXCEPT ![p] = NoObj]
  /\ ctx' = [ctx EXCEPT ![p] = [prev |-> last, quiet |-> quiet, edit |-> pending]]
  /\ pending' = NoEdit
  /\ UNCHANGED <<desc, store, result, last, quiet, edits, faults, diff, util>>

\* r.Client.Get(ctx, req.NamespacedName, genAIDeployment) and the branch on it
Fetch(p) ==
  /\ pc[p] = "Fetch"
  /\ \E f \in FaultChoices :
       LET res == IF f THEN "Error"
                  ELSE IF desc[req[p]] = NoObj THEN "NotFound" ELSE "ok"
           c == Call("get", "GenAIDeployment", req[p][1], req[p][2], res, NoObj)
           gd == DescObj(req[p], p)
       IN  /\ CountFault(f)
           /\ Log(p, c)
           /\ IF res # "ok" THEN
                 /\ Return(p, IgnoreNotFound(res), "Fetch", Append(calls[p], c))
                 /\ UNCHANGED genAIDeployment
              ELSE
                 /\ genAIDeployment' = [genAIDeployment EXCEPT ![p] = gd]
                 /\ Goto(p, IF RayServiceEnabled(gd) THEN "RayGet" ELSE "SaisGet")
  /\ UNCHANGED <<desc, store, req, existing, ctx, pending, passes, edits, diff, util>>

\* r.Client.Get of <req.Name>-raycluster; any error leads to the create branch
RayGet(p) ==
  /\ pc[p] = "RayGet"
  /\ \E f \in FaultChoices :
       LET key == RayClusterKey(req[p])
           r == IF f THEN [res |-> "Error", obj |-> NoObj] ELSE ClientGet(store, key)
       IN  /\ CountFault(f)
           /\ Log(p, Call("get", key[1], key[2], key[3], r.res, NoObj))
           /\ existing' = [existing EXCEPT ![p] =
                              IF r.res = "ok" THEN Decode(r.obj, p) ELSE EmptyRayCluster]
           /\ Goto(p, IF r.res # "ok" THEN "RayCreate" ELSE "RayUpdate")
  /\ UNCHANGED <<desc, store, req, genAIDeployment, ctx, pending, passes, edits, diff, util>>

\* r.Client.Create(ctx, newRayCluster); every error is returned
RayCreate(p) ==
  /\ pc[p] = "RayCreate"
  /\ \E f \in FaultChoices :
       LET newRayCluster == constructRayCluster(genAIDeployment[p])
           r == IF f THEN [res |-> "Error", store |-> store]
                ELSE ClientCreate(store, newRayCluster)
           c == Call("create", newRayCluster.kind, newRayCluster.name,
                     newRayCluster.namespace, r.res, Encode(newRayCluster))
       IN  /\ CountFault(f)
           /\ Log(p, c)
           /\ store' = r.store
           /\ IF r.res # "ok"
              THEN Return(p, "err", "RayCreate", Append(calls[p], c))
              ELSE Goto(p, "Status")
  /\ UNCHANGED <<desc, req, genAIDeployment, existing, ctx, pending, passes, edits, diff, util>>

\* RayUpdate as it would be if it wrote over whatever version the store holds
RayUpdate_Overwrite(p) ==
  /\ pc[p] = "RayUpdate"
  /\ \E f \in FaultChoices :
       LET fetched == updateRayCluster(existing[p], genAIDeployment[p])
           updatedRayCluster == IF KeyOf(fetched) \in DOMAIN store
                                THEN [fetched EXCEPT !.rv = store[KeyOf(fetched)].rv]
                                ELSE fetched
           r == IF f THEN [res |-> "Error", store |-> store]
                ELSE ClientUpdate(store, updatedRayCluster)
           c == Call("update", updatedRayCluster.kind, updatedRayCluster.name,
                     updatedRayCluster.namespace, r.res, Encode(updatedRayCluster))
       IN  /\ CountFault(f)
           /\ Log(p, c)
           /\ store' = r.store
           /\ IF r.res # "ok"
              THEN Return(p, "err", "RayUpdate", Append(calls[p], c))
              ELSE Goto(p, "Status")
  /\ UNCHANGED <<desc, req, genAIDeployment, existing, ctx, pending, passes, edits, diff, util>>

\* r.Client.Update(ctx, updatedRayCluster), issued whenever the Get succeeded
RayUpdate(p) ==
  /\ pc[p] = "RayUpdate"
  /\ \E f \in FaultChoices :
       LET updatedRayCluster == updateRayCluster(existing[p], genAIDeployment[p])
           r == IF f THEN [res |-> "Error", store |-> store]
                ELSE ClientUpdate(store, updatedRayCluster)
           c == Call("update", updatedRayCluster.kind, updatedRayCluster.name,
                     updatedRayCluster.namespace, r.res, Encode(updatedRayCluster))
       IN  /\ CountFault(f)
           /\ Log(p, c)
           /\ store' = r.store
           /\ IF r.res # "ok"
              THEN Return(p, "err", "RayUpdate", Append(calls[p], c))
              ELSE Goto(p, "Status")
  /\ UNCHANGED <<desc, req, genAIDeployment, existing, ctx, pending, passes, edits, diff, util>>

\* the status a pass computes from the rayCluster object of its Get
RayClusterStatusOf(rayCluster) ==
  [ClusterName |-> rayCluster.name,
   State |-> rayCluster.status.State,
   Conditions |-> rayCluster.status.Conditions]

\* updateRayClusterStatus as it would be if Reconcile returned its error
updateRayClusterStatus_Fatal(p) ==
  /\ pc[p] = "Status"
  /\ \E f \in FaultChoices :
       LET gd == [genAIDeployment[p] EXCEPT !.status = RayClusterStatusOf(existing[p])]
           k == <<gd.name, gd.namespace>>
           res == IF f THEN "Error"
                  ELSE IF desc[k] = NoObj THEN "NotFound"
                  ELSE IF desc[k].rv # gd.rv THEN "Conflict" ELSE "ok"
           c == Call("statusUpdate", "GenAIDeployment", gd.name, gd.namespace, res, gd.status)
       IN  /\ CountFault(f)
           /\ Log(p, c)
           /\ desc' = IF res = "ok"
                       THEN [desc EXCEPT ![k].status = gd.status, ![k].rv = @ + 1]
                       ELSE desc
           /\ genAIDeployment' = [genAIDeployment EXCEPT ![p] =
                                     IF res = "ok" THEN [gd EXCEPT !.rv = @ + 1] ELSE gd]
           /\ IF res = "ok" THEN Goto(p, "SaisGet")
              ELSE Return(p, "err", "Status", Append(calls[p], c))
  /\ UNCHANGED <<store, req, existing, ctx, pending, passes, edits, diff, util>>

\* r.Client.Status().Update of the descriptor; its error is only logged
updateRayClusterStatus(p) ==
  /\ pc[p] = "Status"
  /\ \E f \in FaultChoices :
       LET gd == [genAIDeployment[p] EXCEPT !.status = RayClusterStatusOf(existing[p])]
           k == <<gd.name, gd.namespace>>
           res == IF f THEN "Error"
                  ELSE IF desc[k] = NoObj THEN "NotFound"
                  ELSE IF desc[k].rv # gd.rv THEN "Conflict" ELSE "ok"
       IN  /\ CountFault(f)
           /\ Log(p, Call("statusUpdate", "GenAIDeployment", gd.name, gd.namespace, res, gd.status))
           /\ desc' = IF res = "ok"
                       THEN [desc EXCEPT ![k].status = gd.status, ![k].rv = @ + 1]
                       ELSE desc
           /\ genAIDeployment' = [genAIDeployment EXCEPT ![p] =
                                     IF res = "ok" THEN [gd EXCEPT !.rv = @ + 1] ELSE gd]
           /\ Goto(p, "SaisGet")
  /\ UNCHANGED <<store, req, existing, ctx, pending, passes, edits, diff, util>>
\* --------------------------------------------- the two service deployments
\* after the step of a service: service-B follows service-A, and Reconcile
\* returns (ctrl.Result{}, nil) after service-B
Proceed_SkipVectorDb(p, svc, cs) == Return(p, "ok", "none", cs)

Proceed(p, svc, cs) ==
  IF svc = "Sais" THEN Goto(p, "VdbGet") ELSE Return(p, "ok", "none", cs)

\* DeploymentGet as it would be if existingDeployment were a field of the
\* reconciler, shared by the workers
DeploymentGet_SharedExisting(p, svc, desiredDeployment) ==
  /\ pc[p] = svc \o "Get"
  /\ \E f \in FaultChoices :
       LET key == <<"Deployment", desiredDeployment.name, desiredDeployment.namespace>>
           r == IF f THEN [res |-> "Error", obj |-> NoObj] ELSE ClientGet(store, key)
           c == Call("get", key[1], key[2], key[3], r.res, NoObj)
           existingDeployment == IF r.res = "ok" THEN Decode(r.obj, p) ELSE EmptyDeployment
       IN  /\ CountFault(f)
           /\ Log(p, c)
           /\ existing' = [q \in Procs |-> existingDeployment]
           /\ IF r.res = "Error" THEN Return(p, "err", svc \o "Get", Append(calls[p], c))
              ELSE IF r.res = "NotFound" THEN Goto(p, svc \o "Create")
              ELSE IF ~isEqual(desiredDeployment, existingDeployment)
                   THEN Goto(p, svc \o "Update")
                   ELSE Proceed(p, svc, Append(calls[p], c))
  /\ UNCHANGED <<desc, store, req, genAIDeployment, ctx, pending, passes, edits, diff, util>>

DeploymentGet(p, svc, desiredDeployment) ==
  /\ pc[p] = svc \o "Get"
  /\ \E f \in FaultChoices :
       LET key == <<"Deployment", desiredDeployment.name, desiredDeployment.namespace>>
           r == IF f THEN [res |-> "Error", obj |-> NoObj] ELSE ClientGet(store, key)
           c == Call("get", key[1], key[2], key[3], r.res, NoObj)
           existingDeployment == IF r.res = "ok" THEN Decode(r.obj, p) ELSE EmptyDeployment
       IN  /\ CountFault(f)
           /\ Log(p, c)
           /\ existing' = [existing EXCEPT ![p] = existingDeployment]
           /\ IF r.res = "Error" THEN Return(p, "err", svc \o "Get", Append(calls[p], c))
              ELSE IF r.res = "NotFound" THEN Goto(p, svc \o "Create")
              ELSE IF ~isEqual(desiredDeployment, existingDeployment)
                   THEN Goto(p, svc \o "Update")
                   ELSE Proceed(p, svc, Append(calls[p], c))
  /\ UNCHANGED <<desc, store, req, genAIDeployment, ctx, pending, passes, edits, diff, util>>

\* DeploymentCreate as it would be if the error of Create were dropped
DeploymentCreate_IgnoreError(p, svc, desiredDeployment) ==
  /\ pc[p] = svc \o "Create"
  /\ \E f \in FaultChoices :
       LET r == IF f THEN [res |-> "Error", store |-> store]
                ELSE ClientCreate(store, desiredDeployment)
           c == Call("create", desiredDeployment.kind, desiredDeployment.name,
                     desiredDeployment.namespace, r.res, Encode(desiredDeployment))
       IN  /\ CountFault(f)
           /\ Log(p, c)
           /\ store' = r.store
           /\ Proceed(p, svc, Append(calls[p], c))
  /\ UNCHANGED <<desc, req, genAIDeployment, existing, ctx, pending, passes, edits, diff, util>>

DeploymentCreate(p, svc, desiredDeployment) ==
  /\ pc[p] = svc \o "Create"
  /\ \E f \in FaultChoices :
       LET r == IF f THEN [res |-> "Error", store |-> store]
                ELSE ClientCreate(store, desiredDeployment)
           c == Call("create", desiredDeployment.kind, desiredDeployment.name,
                     desiredDeployment.namespace, r.res, Encode(desiredDeployment))
       IN  /\ CountFault(f)
           /\ Log(p, c)
           /\ store' = r.store
           /\ IF r.res # "ok"
              THEN Return(p, "err", svc \o "Create", Append(calls[p], c))
              ELSE Proceed(p, svc, Append(calls[p], c))
  /\ UNCHANGED <<desc, req, genAIDeployment, existing, ctx, pending, passes, edits, diff, util>>

\* DeploymentUpdate as it would be if it wrote a new object carrying only
\* the identity and the version of the fetched one
DeploymentUpdate_NewObject(p, svc, desiredDeployment) ==
  /\ pc[p] = svc \o "Update"
  /\ \E f \in FaultChoices :
       LET existingDeployment == [EmptyDeployment EXCEPT !.name = existing[p].name,
                                                         !.namespace = existing[p].namespace,
                                                         !.rv = existing[p].rv,
                                                         !.spec = desiredDeployment.spec]
           r == IF f THEN [res |-> "Error", store |-> store]
                ELSE ClientUpdate(store, existingDeployment)
           c == Call("update", existingDeployment.kind, existingDeployment.name,
                     existingDeployment.namespace, r.res, Encode(existingDeployment))
       IN  /\ CountFault(f)
           /\ Log(p, c)
           /\ store' = r.store
           /\ IF r.res # "ok"
              THEN Return(p, "err", svc \o "Update", Append(calls[p], c))
              ELSE Proceed(p, svc, Append(calls[p], c))
  /\ UNCHANGED <<desc, req, genAIDeployment, existing, ctx, pending, passes, edits, diff, util>>

DeploymentUpdate(p, svc, desiredDeployment) ==
  /\ pc[p] = svc \o "Update"
  /\ \E f \in FaultChoices :
       LET existingDeployment == [existing[p] EXCEPT !.spec = desiredDeployment.spec]
           r == IF f THEN [res |-> "Error", store |-> store]
                ELSE ClientUpdate(store, existingDeployment)
           c == Call("update", existingDeployment.kind, existingDeployment.name,
                     existingDeployment.namespace, r.res, Encode(existingDeployment))
       IN  /\ CountFault(f)
           /\ Log(p, c)
           /\ store' = r.store
           /\ IF r.res # "ok"
              THEN Return(p, "err", svc \o "Update", Append(calls[p], c))
              ELSE Proceed(p, svc, Append(calls[p], c))
  /\ UNCHANGED <<desc, req, genAIDeployment, existing, ctx, pending, passes, edits, diff, util>>

reconcileSaisServiceDeploymentGet(p) ==
  DeploymentGet(p, "Sais", constructSaisServiceDeployment(genAIDeployment[p]))

reconcileSaisServiceDeploymentCreate(p) ==
  DeploymentCreate(p, "Sais", constructSaisServiceDeployment(genAIDeployment[p]))

reconcileSaisServiceDeploymentUpdate(p) ==
  DeploymentUpdate(p, "Sais", constructSaisServiceDeployment(genAIDeployment[p]))

reconcileVectorDbDeploymentGet(p) ==
  DeploymentGet(p, "Vdb", constructVectorDbDeployment(genAIDeployment[p]))

reconcileVectorDbDeploymentCreate(p) ==
  DeploymentCreate(p, "Vdb", constructVectorDbDeployment(genAIDeployment[p]))

reconcileVectorDbDeploymentUpdate(p) ==
  DeploymentUpdate(p, "Vdb", constructVectorDbDeployment(genAIDeployment[p]))

\* ------------------------------------------------------------ environment
\* the user changes one field of one sub-spec of a descriptor; the change is
\* delivered between two passes (a pass works on the descriptor it fetched)
EditDescriptor(k, sub, f, v) ==
  /\ desc[k] # NoObj
  /\ \A p \in Procs : pc[p] \in {"idle", "done"}
  /\ edits < MaxEdits
  /\ v # desc[k].spec[sub][f]
  /\ edits' = edits + 1
  /\ desc' = [desc EXCEPT ![k].spec[sub][f] = v, ![k].rv = @ + 1]
  /\ pending' = IF pending.n = 0
                 THEN [n |-> 1, sub |-> sub, field |-> f, converged |-> Converged(k)]
                 ELSE [pending EXCEPT !.n = 2]
  /\ quiet' = FALSE
  /\ UNCHANGED <<store, pc, req, genAIDeployment, existing, calls, result, ctx,
                 last, passes, faults, diff, util>>

\* the user deletes a descriptor
DeleteDescriptor(k) ==
  /\ desc[k] # NoObj
  /\ desc' = [desc EXCEPT ![k] = NoObj]
  /\ quiet' = FALSE
  /\ UNCHANGED <<store, pc, req, genAIDeployment, existing, calls, result, ctx,
                 last, pending, passes, edits, faults, diff, util>>

\* the garbage collector removes an object whose owner is gone
GarbageCollect(key) ==
  /\ store[key].owner # NoOwner
  /\ desc[<<store[key].owner.name, store[key].owner.namespace>>] = NoObj
  /\ store' = [x \in DOMAIN store \ {key} |-> store[x]]
  /\ quiet' = FALSE
  /\ UNCHANGED <<desc, pc, req, genAIDeployment, existing, calls, result, ctx,
                 last, pending, passes, edits, faults, diff, util>>

\* the compute-cluster operator reports the cluster ready
RayOperator(key) ==
  /\ store[key].kind = "RayCluster"
  /\ store[key].status.State = ""
  /\ store' = [store EXCEPT ![key].status = [State |-> "ready", Conditions |-> <<"HeadPodReady">>],
                            ![key].rv = @ + 1]
  /\ quiet' = FALSE
  /\ UNCHANGED <<desc, pc, req, genAIDeployment, existing, calls, result, ctx,
                 last, pending, passes, edits, faults, diff, util>>

\* ----------------------------------------------------------- specifications
Step(p) ==
  \/ \E k \in DOMAIN desc : StartPass(p, k)
  \/ Fetch(p)
  \/ RayGet(p)
  \/ RayCreate(p)
  \/ RayUpdate(p)
  \/ updateRayClusterStatus(p)
  \/ reconcileSaisServiceDeploymentGet(p)
  \/ reconcileSaisServiceDeploymentCreate(p)
  \/ reconcileSaisServiceDeploymentUpdate(p)
  \/ reconcileVectorDbDeploymentGet(p)
  \/ reconcileVectorDbDeploymentCreate(p)
  \/ reconcileVectorDbDeploymentUpdate(p)

Edit ==
  \E k \in DOMAIN desc, sub \in SubSpecs :
    \E f \in DOMAIN InitialSpec(TRUE)[sub] :
      \E v \in FieldVals(f) : EditDescriptor(k, sub, f, v)

\* one worker, the user edits the descriptor: passes of a descriptor are
\* serialized by the event dispatch
Next == Step(1) \/ Edit

Spec == Init /\ [][Next]_vars

\* one worker, the user switches the compute-cluster sub-spec on and off
Toggle ==
  \E k \in DOMAIN desc, v \in BOOLEAN : EditDescriptor(k, "RayService", "Enabled", v)

NextToggle == Step(1) \/ Toggle

SpecToggle == Init /\ [][NextToggle]_vars

\* one worker, the user changes a field of a service sub-spec: one that
\* isEqual looks at and one that it does not
Drift ==
  \E k \in DOMAIN desc :
    \/ \E v \in FieldVals("Image") : EditDescriptor(k, "SaisService", "Image", v)
    \/ \E v \in FieldVals("TopologySpreadConstraints") :
         EditDescriptor(k, "VectorDbService", "TopologySpreadConstraints", v)

NextDrift == Step(1) \/ Drift

SpecDrift == Init /\ [][NextDrift]_vars

\* one worker, the user deletes the descriptor and the garbage collector runs
NextLife ==
  \/ Step(1)
  \/ \E k \in DOMAIN desc : DeleteDescriptor(k)
  \/ \E key \in DOMAIN store : GarbageCollect(key)

SpecLife == Init /\ [][NextLife]_vars

\* several workers: passes of the same descriptor may interleave, and the
\* compute-cluster operator writes the cluster status
NextConc ==
  \/ \E p \in Procs : Step(p)
  \/ \E key \in DOMAIN store : RayOperator(key)

SpecConc == Init /\ [][NextConc]_vars
\* several workers and the operator as in SpecConc, with a client that
\* returns no transport error
InitRace == InitOver(DescKeys, MaxFaults) /\ diff = NoDiff /\ util = NoUtil

SpecRace == InitRace /\ [][NextConc]_vars

\* two descriptors of the same name in two namespaces, one worker for each
IsoKey == <<<<"x", "ns1">>, <<"x", "ns2">>>>

InitIso ==
  InitOver({IsoKey[p] : p \in Procs}, 0) /\ diff = NoDiff /\ util = NoUtil

NextIso ==
  \E p \in Procs :
    \/ StartPass(p, IsoKey[p])
    \/ Fetch(p)
    \/ RayGet(p)
    \/ RayCreate(p)
    \/ RayUpdate(p)
    \/ updateRayClusterStatus(p)
    \/ reconcileSaisServiceDeploymentGet(p)
    \/ reconcileSaisServiceDeploymentCreate(p)
    \/ reconcileSaisServiceDeploymentUpdate(p)
    \/ reconcileVectorDbDeploymentGet(p)
    \/ reconcileVectorDbDeploymentCreate(p)
    \/ reconcileVectorDbDeploymentUpdate(p)

SpecIso == InitIso /\ [][NextIso]_vars

\* the equality evaluator on its own: two descriptor objects, the second
\* differing from the first in at most one field of a service sub-spec; the
\* same addr is the same Go object at two moments (changed in between)
DiffAddrs == {1, 2}

DiffInputs ==
  UNION { UNION { { [g1 |-> [name |-> "x", namespace |-> "ns1", addr |-> a1,
                            spec |-> InitialSpec(FALSE)],
                     g2 |-> [name |-> "x", namespace |-> "ns1", addr |-> a2,
                            spec |-> [InitialSpec(FALSE) EXCEPT ![sub][f] = v]],
                     cmp |-> NoObj]
                    : a1 \in DiffAddrs, a2 \in DiffAddrs, v \in FieldVals(f) }
                  : f \in DOMAIN InitialSpec(FALSE)[sub] }
          : sub \in {"SaisService", "VectorDbService"} }

InitDiff == InitState /\ diff \in DiffInputs /\ util = NoUtil

\* isEqual(desired, existing) on the deployments constructed from g1 and g2
CompareSais ==
  /\ diff.g1 # NoObj /\ diff.cmp = NoObj
  /\ diff' = [diff EXCEPT !.cmp =
                [sub |-> "SaisService",
                 equal |-> isEqual(constructSaisServiceDeployment(diff.g1),
                                   constructSaisServiceDeployment(diff.g2))]]
  /\ UNCHANGED <<desc, store, pc, req, genAIDeployment, existing, calls, result,
                 ctx, last, quiet, pending, passes, edits, faults, util>>

CompareVectorDb ==
  /\ diff.g1 # NoObj /\ diff.cmp = NoObj
  /\ diff' = [diff EXCEPT !.cmp =
                [sub |-> "VectorDbService",
                 equal |-> isEqual(constructVectorDbDeployment(diff.g1),
                                   constructVectorDbDeployment(diff.g2))]]
  /\ UNCHANGED <<desc, store, pc, req, genAIDeployment, existing, calls, result,
                 ctx, last, quiet, pending, passes, edits, faults, util>>

NextDiff == CompareSais \/ CompareVectorDb

SpecDiff == InitDiff /\ [][NextDiff]_vars

\* ------------------------------------------- pkg/splunk/util resource helpers
UtilNames == {"r1", "r2"}

\* client.Create / client.Update / client.Delete on the objects of the
\* helpers: the error returned ("ok" is a nil error) and the objects after
\* the call; f is a transport error, stale an outdated resource version
UtilClient(op, objs, n, v, f, stale) ==
  IF f THEN [err |-> "Error", objs |-> objs]
  ELSE IF op = "create" THEN
    IF n \in DOMAIN objs THEN [err |-> "AlreadyExists", objs |-> objs]
    ELSE [err |-> "ok", objs |-> (n :> v) @@ objs]
  ELSE IF n \notin DOMAIN objs THEN [err |-> "NotFound", objs |-> objs]
  ELSE IF op = "update" THEN
    IF stale THEN [err |-> "Conflict", objs |-> objs]
    ELSE [err |-> "ok", objs |-> [objs EXCEPT ![n] = v]]
  ELSE [err |-> "ok", objs |-> [x \in DOMAIN objs \ {n} |-> objs[x]]]

\* the helpers as they would be if they also swallowed NotFound
ResourceResult_IgnoreNotFound(err) ==
  IF err # "ok" /\ err # "AlreadyExists" /\ err # "NotFound" THEN err ELSE "nil"

\* if err != nil && !errors.IsAlreadyExists(err) { return err }; return nil
ResourceResult(err) ==
  IF err # "ok" /\ ~(err = "AlreadyExists") THEN err ELSE "nil"

UtilCall(helper, op, n, v, f, stale) ==
  LET r == UtilClient(op, util.objs, n, v, f, stale) IN
    /\ util' = [objs |-> r.objs,
                last |-> [helper |-> helper, name |-> n,
                          clientCalls |-> << [op |-> op, name |-> n] >>,
                          err |-> r.err, ret |-> ResourceResult(r.err),
                          before |-> util.objs]]
    /\ UNCHANGED <<desc, store, pc, req, genAIDeployment, existing, calls, result,
                   ctx, last, quiet, pending, passes, edits, faults, diff>>

CreateResource(n, v, f) == UtilCall("CreateResource", "create", n, v, f, FALSE)

UpdateResource(n, v, f, stale) == UtilCall("UpdateResource", "update", n, v, f, stale)

DeleteResource(n, f) == UtilCall("DeleteResource", "delete", n, "a", f, FALSE)

NextUtil ==
  \/ \E n \in UtilNames, v \in Vals, f \in BOOLEAN : CreateResource(n, v, f)
  \/ \E n \in UtilNames, v \in Vals, f \in BOOLEAN, stale \in BOOLEAN :
       UpdateResource(n, v, f, stale)
  \/ \E n \in UtilNames, f \in BOOLEAN : DeleteResource(n, f)

SpecUtil == Init /\ [][NextUtil]_vars

\* ------------------------------------------------------------ properties
ManagedKinds == {"RayCluster", "Deployment"}

\* the positions in the call log of worker p of the calls with an op in ops
\* on a managed resource of a kind in kinds
CallsOf(p, ops, kinds) ==
  {i \in 1..Len(calls[p]) : calls[p][i].op \in ops /\ calls[p][i].kind \in kinds}

SaisName(p) == req[p][1] \o "-sais-service"
VdbName(p) == req[p][1] \o "-vectordb-service"

\* C1: after a pass has returned success, a second pass for the same
\* descriptor, with no change from outside in between, issues no create, no
\* update and no delete call on any managed resource.
C1_SecondPassWritesNothing ==
  \A p \in Procs :
    (ctx[p].prev.result = "ok" /\ ctx[p].prev.key = req[p] /\ ctx[p].quiet)
      => CallsOf(p, {"create", "update", "delete"}, ManagedKinds) = {}

\* C2: when the fetch of the descriptor returns NotFound the pass returns
\* success, when it fails otherwise the pass returns the error; in both cases
\* the fetch is the only call of the pass.
C2_DescriptorNotFetched ==
  \A p \in Procs :
    (Len(calls[p]) >= 1 /\ calls[p][1].res # "ok")
      => /\ Len(calls[p]) = 1
         /\ calls[p][1].kind = "GenAIDeployment"
         /\ pc[p] = "done"
         /\ result[p] = (IF calls[p][1].res = "NotFound" THEN "ok" ELSE "err")

\* a pass found the descriptor deleted while its managed resources were
\* still in the store
C2_Witness ==
  \E p \in Procs :
    /\ pc[p] = "done" /\ result[p] = "ok"
    /\ Len(calls[p]) = 1 /\ calls[p][1].res = "NotFound"
    /\ store # << >>

\* C3: a pass for a descriptor whose compute-cluster sub-spec is not enabled
\* issues no create, update or delete call for the compute cluster and no
\* status update, whatever the store contains.
C3_DisabledClusterUntouched ==
  \A p \in Procs :
    (genAIDeployment[p] # NoObj /\ ~genAIDeployment[p].spec.RayService.Enabled)
      => /\ CallsOf(p, {"create", "update", "delete"}, {"RayCluster"}) = {}
         /\ CallsOf(p, {"statusUpdate"}, {"GenAIDeployment"}) = {}

\* a pass with the sub-spec disabled has returned while the cluster of an
\* earlier pass is in the store
C3_Witness ==
  \E p \in Procs :
    /\ pc[p] = "done" /\ result[p] = "ok"
    /\ genAIDeployment[p] # NoObj /\ ~genAIDeployment[p].spec.RayService.Enabled
    /\ RayClusterKey(req[p]) \in DOMAIN store

\* C4: a pass that saw a managed resource absent and whose create then
\* returned AlreadyExists does not return a failure at that create.
C4_AlreadyExistsIsSuccess ==
  \A p \in Procs :
    \A i \in 2..Len(calls[p]) :
      (/\ calls[p][i].op = "create" /\ calls[p][i].res = "AlreadyExists"
       /\ calls[p][i-1].op = "get" /\ calls[p][i-1].res = "NotFound")
        => ~(i = Len(calls[p]) /\ pc[p] = "done" /\ result[p] = "err")

\* the name of the managed resource of a sub-spec of the descriptor of p
ResourceOf(p, sub) ==
  IF sub = "RayService" THEN RayClusterKey(req[p])[2]
  ELSE IF sub = "SaisService" THEN SaisName(p) ELSE VdbName(p)

\* the spec, as stored, that the constructor of a sub-spec gives for gd
DesiredSpec(gd, sub) ==
  IF sub = "RayService" THEN Encode(constructRayCluster(gd)).spec
  ELSE IF sub = "SaisService" THEN Encode(constructSaisServiceDeployment(gd)).spec
  ELSE Encode(constructVectorDbDeployment(gd)).spec

\* C5: when exactly one propagated field of one sub-spec was changed in a
\* converged state, the next pass, if it succeeds, has issued exactly one
\* update call, on the managed resource of that sub-spec, writing the
\* desired spec of the changed descriptor.
C5_OneUpdateForOneChange ==
  \A p \in Procs :
    (/\ pc[p] = "done" /\ result[p] = "ok"
     /\ ctx[p].edit.n = 1 /\ ctx[p].edit.converged /\ ctx[p].edit.field # "Enabled")
      => LET ups == CallsOf(p, {"update"}, ManagedKinds) IN
           /\ Cardinality(ups) = 1
           /\ \A i \in ups :
                /\ calls[p][i].name = ResourceOf(p, ctx[p].edit.sub)
                /\ calls[p][i].obj.spec = DesiredSpec(genAIDeployment[p], ctx[p].edit.sub)

\* C6: after a pass that created the compute cluster and failed on the
\* service-A update, the cluster is in the store; and the following pass, if
\* nothing changed and the store accepts its writes, leaves service-A with
\* its desired spec and issues no create and no update for the cluster.
C6_RerunLeavesClusterAlone ==
  /\ (last.rayCreated /\ last.failedAt = "SaisUpdate" /\ quiet)
       => <<"RayCluster", last.key[1] \o "-raycluster", last.key[2]>> \in DOMAIN store
  /\ \A p \in Procs :
       (/\ pc[p] = "done" /\ result[p] = "ok"
        /\ ctx[p].prev.rayCreated /\ ctx[p].prev.failedAt = "SaisUpdate"
        /\ ctx[p].prev.key = req[p] /\ ctx[p].quiet)
         => /\ Matches(constructSaisServiceDeployment(genAIDeployment[p]))
            /\ CallsOf(p, {"create", "update"}, {"RayCluster"}) = {}

\* the fields of sub-spec sub in which the descriptor objects g1 and g2 differ
DiffFields(g1, g2, sub) ==
  {f \in DOMAIN g1.spec[sub] : g1.spec[sub][f] # g2.spec[sub][f]}

\* C7: two deployments constructed by a service constructor that differ in
\* exactly one field other than the replica count and the image are
\* classified as unequal by isEqual.
C7_DiffComplete ==
  (/\ diff.cmp # NoObj
   /\ Cardinality(DiffFields(diff.g1, diff.g2, diff.cmp.sub)) = 1
   /\ DiffFields(diff.g1, diff.g2, diff.cmp.sub) \cap {"Replicas", "Image"} = {}
   /\ DesiredSpec(diff.g1, diff.cmp.sub) # DesiredSpec(diff.g2, diff.cmp.sub))
    => ~diff.cmp.equal

\* C8: every call of a pass on a managed resource addresses the derived
\* name of its kind in the namespace of the request: <name>-raycluster for
\* the compute cluster, <name>-sais-service for the first deployment the
\* pass handles and <name>-vectordb-service for the second; and a create or
\* update addresses the name that the get before it addressed.
C8_DerivedNames ==
  \A p \in Procs :
    \A i \in 1..Len(calls[p]) :
      LET c == calls[p][i] IN
        /\ c.namespace = req[p][2]
        /\ c.kind = "RayCluster" => c.name = req[p][1] \o "-raycluster"
        /\ c.kind = "Deployment" =>
             c.name = (IF Cardinality({j \in 1..i : calls[p][j].kind = "Deployment"
                                                     /\ calls[p][j].op = "get"}) = 2
                       THEN req[p][1] \o "-vectordb-service"
                       ELSE req[p][1] \o "-sais-service")
        /\ c.op \in {"create", "update"} =>
             /\ i > 1
             /\ calls[p][i-1].op = "get"
             /\ calls[p][i-1].kind = c.kind
             /\ calls[p][i-1].name = c.name
             /\ calls[p][i-1].namespace = c.namespace

\* a pass has created the cluster and both deployments
C8_Witness ==
  \E p \in Procs :
    /\ pc[p] = "done" /\ result[p] = "ok"
    /\ CallsOf(p, {"create"}, {"RayCluster"}) # {}
    /\ Cardinality(CallsOf(p, {"create"}, {"Deployment"})) = 2

\* C9: every managed resource in the store carries an owner back-reference
\* to the descriptor it was created for.
C9_EveryResourceOwned ==
  \A key \in DOMAIN store :
    /\ store[key].owner # NoOwner
    /\ key[2] \in {store[key].owner.name \o "-raycluster",
                    store[key].owner.name \o "-sais-service",
                    store[key].owner.name \o "-vectordb-service"}
    /\ key[3] = store[key].owner.namespace
\* C10: a failed status update of the descriptor does not end the pass: the
\* pass goes on to the service-A step, and what it returns is decided by the
\* service steps alone (success exactly when the service-B step completed).
C10_StatusFailureNotFatal ==
  \A p \in Procs :
    \A i \in CallsOf(p, {"statusUpdate"}, {"GenAIDeployment"}) :
      calls[p][i].res # "ok" =>
        LET lastCall == calls[p][Len(calls[p])] IN
          /\ i = Len(calls[p]) => pc[p] = "SaisGet"
          /\ pc[p] = "done" =>
               /\ \E j \in (i+1)..Len(calls[p]) :
                    /\ calls[p][j].op = "get" /\ calls[p][j].kind = "Deployment"
                    /\ calls[p][j].name = SaisName(p)
               /\ lastCall.kind = "Deployment"
               /\ result[p] = "ok" <=> (lastCall.name = VdbName(p) /\ lastCall.res = "ok")
               /\ result[p] = "err" <=> lastCall.res # "ok"

\* a pass whose status update failed has reconciled both services and
\* returned success
C10_Witness ==
  \E p \in Procs :
    /\ pc[p] = "done" /\ result[p] = "ok"
    /\ \E i \in CallsOf(p, {"statusUpdate"}, {"GenAIDeployment"}) : calls[p][i].res # "ok"
    /\ CallsOf(p, {"get"}, {"Deployment"}) # {}

\* C11: a failed create or update of a managed resource is the last call of
\* its pass and the pass returns a failure; no pass ever issues a delete, and
\* what the pass created before the failure is still in the store.
C11_AbortOnFirstFailure ==
  \A p \in Procs :
    /\ CallsOf(p, {"delete"}, ManagedKinds) = {}
    /\ \A i \in CallsOf(p, {"create", "update"}, ManagedKinds) :
         calls[p][i].res # "ok" =>
           /\ i = Len(calls[p])
           /\ pc[p] = "done"
           /\ result[p] = "err"
           /\ \A j \in CallsOf(p, {"create"}, ManagedKinds) :
                calls[p][j].res = "ok" =>
                  <<calls[p][j].kind, calls[p][j].name, calls[p][j].namespace>> \in DOMAIN store

\* a pass created the compute cluster, failed on the create of service-A
\* and returned the failure without a service-B call
C11_Witness ==
  \E p \in Procs :
    /\ pc[p] = "done" /\ result[p] = "err"
    /\ CallsOf(p, {"create"}, {"RayCluster"}) # {}
    /\ calls[p][Len(calls[p])].op = "create"
    /\ calls[p][Len(calls[p])].name = SaisName(p)
    /\ calls[p][Len(calls[p])].res # "ok"
    /\ RayClusterKey(req[p]) \in DOMAIN store

\* C12: CreateResource, UpdateResource and DeleteResource issue exactly one
\* call of their client operation on the given object and return nil exactly
\* when that call returned no error or AlreadyExists; any other error is
\* returned as it is. CreateResource of an existing object returns nil and
\* leaves the stored object as it was.
C12_HelperResult ==
  util.last # NoObj =>
    LET l == util.last IN
      /\ Len(l.clientCalls) = 1
      /\ l.clientCalls[1].name = l.name
      /\ l.clientCalls[1].op = (IF l.helper = "CreateResource" THEN "create"
                                ELSE IF l.helper = "UpdateResource" THEN "update"
                                ELSE "delete")
      /\ l.ret = "nil" <=> l.err \in {"ok", "AlreadyExists"}
      /\ l.ret # "nil" => l.ret = l.err
      /\ (l.helper = "CreateResource" /\ l.name \in DOMAIN l.before /\ l.err # "Error")
           => (l.err = "AlreadyExists" /\ l.ret = "nil" /\ util.objs = l.before)

\* CreateResource was called for an object that was already there
C12_Witness ==
  /\ util.last # NoObj
  /\ util.last.helper = "CreateResource"
  /\ util.last.err = "AlreadyExists"
  /\ util.last.ret = "nil"

\* C13: self-healing, in the form a finite run decides: when two passes in
\* a row for the same descriptor have both returned success and nothing
\* changed from outside since the first of them returned, every enabled
\* managed resource exists under its derived name with the desired spec.
C13_ConvergedAfterQuietPasses ==
  \A p \in Procs :
    (/\ pc[p] = "done" /\ result[p] = "ok" /\ quiet
     /\ ctx[p].prev.result = "ok" /\ ctx[p].prev.key = req[p] /\ ctx[p].quiet
     /\ genAIDeployment[p] # NoObj)
      => Converged(req[p])

\* C14: a successful update of a service deployment changes, in the stored
\* object, the spec (to the desired spec of the pass) and the resource
\* version only: name, namespace, owner reference and every other field of
\* the stored object are as before.
C14_UpdateFrame ==
  [][\A p \in Procs :
       (/\ Len(calls'[p]) = Len(calls[p]) + 1
        /\ calls'[p][Len(calls'[p])].op = "update"
        /\ calls'[p][Len(calls'[p])].kind = "Deployment"
        /\ calls'[p][Len(calls'[p])].res = "ok")
         => LET c == calls'[p][Len(calls'[p])]
                key == <<c.kind, c.name, c.namespace>>
                sub == IF c.name = SaisName(p) THEN "SaisService" ELSE "VectorDbService"
            IN  /\ key \in DOMAIN store
                /\ store'[key] = [store[key] EXCEPT
                                     !.spec = DesiredSpec(genAIDeployment[p], sub),
                                     !.rv = @ + 1]]_vars

\* after a change of the service-A image a pass has updated service-A: the
\* stored deployment has the new spec and still its owner reference
C14_Witness ==
  \E p \in Procs :
    /\ pc[p] = "done" /\ result[p] = "ok"
    /\ ctx[p].edit.n = 1 /\ ctx[p].edit.sub = "SaisService" /\ ctx[p].edit.converged
    /\ \E i \in CallsOf(p, {"update"}, {"Deployment"}) :
         calls[p][i].name = SaisName(p) /\ calls[p][i].res = "ok"
    /\ Matches(constructSaisServiceDeployment(genAIDeployment[p]))
    /\ store[<<"Deployment", SaisName(p), req[p][2]>>].owner # NoOwner

\* C15: when a pass has returned and its status-update call succeeded, the
\* descriptor status holds the derived cluster name <name>-raycluster, and
\* the state and conditions of the compute cluster in the store, whether the
\* pass found the cluster or created it; and the descriptor's spec is the
\* one the pass read.
C15_StatusIsProjection ==
  \A p \in Procs :
    (/\ pc[p] = "done"
     /\ \E i \in CallsOf(p, {"statusUpdate"}, {"GenAIDeployment"}) : calls[p][i].res = "ok"
     /\ desc[req[p]] # NoObj
     /\ desc[req[p]].rv = genAIDeployment[p].rv)
      => /\ desc[req[p]].status.ClusterName = RayClusterKey(req[p])[2]
         /\ RayClusterKey(req[p]) \in DOMAIN store
         /\ desc[req[p]].status.State = store[RayClusterKey(req[p])].status.State
         /\ desc[req[p]].status.Conditions = store[RayClusterKey(req[p])].status.Conditions
         /\ desc[req[p]].spec = genAIDeployment[p].spec

\* C16: when the get of a managed resource fails with an error other than
\* NotFound, the pass issues no further call (so no create of that resource)
\* and returns the failure; and every create of a managed resource directly
\* follows a get of that resource that returned NotFound.
C16_FetchErrorIsNotAbsence ==
  \A p \in Procs :
    /\ \A i \in CallsOf(p, {"get"}, ManagedKinds) :
         calls[p][i].res = "Error" =>
           /\ i = Len(calls[p])
           /\ pc[p] = "done" /\ result[p] = "err"
    /\ \A i \in CallsOf(p, {"create"}, ManagedKinds) :
         /\ i > 1
         /\ calls[p][i - 1].op = "get"
         /\ calls[p][i - 1].kind = calls[p][i].kind
         /\ calls[p][i - 1].name = calls[p][i].name
         /\ calls[p][i - 1].res = "NotFound"

\* C17: a pass issues an update call for a service deployment only when the
\* deployment it fetched differs from the freshly constructed desired one in
\* the value of the replica count or in the image of the first container.
C17_DiffSound ==
  [][\A p \in Procs :
       (/\ Len(calls'[p]) = Len(calls[p]) + 1
        /\ calls'[p][Len(calls'[p])].op = "update"
        /\ calls'[p][Len(calls'[p])].kind = "Deployment")
         => LET desired == IF calls'[p][Len(calls'[p])].name = SaisName(p)
                           THEN constructSaisServiceDeployment(genAIDeployment[p])
                           ELSE constructVectorDbDeployment(genAIDeployment[p])
            IN  \/ desired.spec.Replicas.val # existing[p].spec.Replicas.val
                \/ desired.spec.Containers[1].Image # existing[p].spec.Containers[1].Image]_vars

\* C18: every update call of a pass on a managed resource directly follows a
\* successful get of that resource in the same pass and writes the object
\* that get fetched (its name, namespace and resource version); the update
\* succeeds only when the store still holds that version, and when it does
\* not succeed the store is left as it is and the pass returns a failure.
C18_NoBlindOverwrite ==
  [][\A p \in Procs :
       (/\ Len(calls'[p]) = Len(calls[p]) + 1
        /\ calls'[p][Len(calls'[p])].op = "update"
        /\ calls'[p][Len(calls'[p])].kind \in ManagedKinds)
         => LET c == calls'[p][Len(calls'[p])]
                g == calls[p][Len(calls[p])]
                key == <<c.kind, c.name, c.namespace>>
            IN  /\ Len(calls[p]) >= 1
                /\ g.op = "get" /\ g.res = "ok"
                /\ <<g.kind, g.name, g.namespace>> = key
                /\ KeyOf(existing[p]) = key
                /\ c.obj.rv = existing[p].rv
                /\ c.res = "ok" =>
                     /\ key \in DOMAIN store
                     /\ store[key].rv = c.obj.rv
                     /\ store'[key].status = store[key].status
                /\ c.res # "ok" =>
                     /\ store' = store
                     /\ pc'[p] = "done" /\ result'[p] = "err"]_vars

\* a pass has returned a failure on an update that met a version of the
\* resource newer than the one it had fetched, and the newer one is in place
C18_Witness ==
  \E p \in Procs :
    /\ pc[p] = "done" /\ result[p] = "err"
    /\ Len(calls[p]) >= 2
    /\ LET c == calls[p][Len(calls[p])]
           key == <<c.kind, c.name, c.namespace>>
       IN  /\ c.op = "update" /\ c.res = "Conflict"
           /\ key \in DOMAIN store
           /\ store[key].rv > c.obj.rv

\* the objects a pass of worker p may read or write
OwnKeys(p) ==
  {<<"GenAIDeployment", req[p][1], req[p][2]>>,
   RayClusterKey(req[p]),
   <<"Deployment", SaisName(p), req[p][2]>>,
   <<"Deployment", VdbName(p), req[p][2]>>}

\* the calls (op, kind, name, namespace, result) of a first pass for k that
\* runs alone on an empty store with no transport error
SoloCalls(k, en) ==
  <<<<"get", "GenAIDeployment", k[1], k[2], "ok">>>>
  \o (IF en THEN <<<<"get", "RayCluster", k[1] \o "-raycluster", k[2], "NotFound">>,
                   <<"create", "RayCluster", k[1] \o "-raycluster", k[2], "ok">>,
                   <<"statusUpdate", "GenAIDeployment", k[1], k[2], "ok">>>>
       ELSE << >>)
  \o <<<<"get", "Deployment", k[1] \o "-sais-service", k[2], "NotFound">>,
       <<"create", "Deployment", k[1] \o "-sais-service", k[2], "ok">>,
       <<"get", "Deployment", k[1] \o "-vectordb-service", k[2], "NotFound">>,
       <<"create", "Deployment", k[1] \o "-vectordb-service", k[2], "ok">>>>

\* the store after first passes for the descriptors of keys, run alone one
\* after the other
SoloStore(d, keys) ==
  LET gd(k) == [name |-> k[1], namespace |-> k[2], spec |-> d[k].spec,
                status |-> d[k].status, rv |-> d[k].rv, addr |-> 0]
      objs == UNION {{constructSaisServiceDeployment(gd(k)),
                      constructVectorDbDeployment(gd(k))}
                     \cup (IF d[k].spec.RayService.Enabled
                           THEN {constructRayCluster(gd(k))} ELSE {})
                     : k \in keys}
  IN  [key \in {KeyOf(o) : o \in objs} |->
         LET o == CHOOSE x \in objs : KeyOf(x) = key
         IN  [Encode(o) EXCEPT !.rv = 1]]

\* C19: passes for two descriptors of different identity, interleaved in any
\* way, address disjoint sets of objects; a step of one pass changes no
\* object and no local state of the other; and when each has run one pass
\* with no transport error, the result and the calls of each pass and the
\* store are those of the two passes run alone one after the other.
C19_Isolation ==
  [][/\ \A p \in Procs :
          calls'[p] # calls[p] /\ calls'[p] # << >> =>
            LET c == calls'[p][Len(calls'[p])] IN
              /\ <<c.kind, c.name, c.namespace>> \in OwnKeys(p)
              /\ \A q \in Procs \ {p} :
                   /\ req[q] # req[p] => OwnKeys(p) \cap OwnKeys(q) = {}
                   /\ calls'[q] = calls[q] /\ pc'[q] = pc[q] /\ result'[q] = result[q]
                   /\ existing'[q] = existing[q]
                   /\ genAIDeployment'[q] = genAIDeployment[q]
              /\ \A key \in (DOMAIN store \cup DOMAIN store') \ OwnKeys(p) :
                   key \in DOMAIN store /\ key \in DOMAIN store' /\ store'[key] = store[key]
              /\ \A k \in DOMAIN desc \ {req[p]} : desc'[k] = desc[k]
     /\ (/\ passes' = Cardinality(Procs)
         /\ \A p \in Procs : pc'[p] = "done"
         /\ \A p \in Procs : \A i \in 1..Len(calls'[p]) : calls'[p][i].res # "Error")
          => /\ \A p \in Procs :
                  /\ result'[p] = "ok"
                  /\ [i \in 1..Len(calls'[p]) |->
                        <<calls'[p][i].op, calls'[p][i].kind, calls'[p][i].name,
                          calls'[p][i].namespace, calls'[p][i].res>>]
                       = SoloCalls(req'[p], genAIDeployment'[p].spec.RayService.Enabled)
             /\ store' = SoloStore(desc', {req'[p] : p \in Procs})]_vars

\* the two workers have each run one pass, for the two descriptors, with
\* the compute cluster enabled, and the store holds the six resources
C19_Witness ==
  /\ passes = Cardinality(Procs)
  /\ \A p \in Procs : pc[p] = "done" /\ result[p] = "ok" /\ req[p] = IsoKey[p]
  /\ req[1] # req[2]
  /\ \A p \in Procs : RayClusterKey(req[p]) \in DOMAIN store
  /\ Cardinality(DOMAIN store) = 6

\* the place of a call in the order of the steps of Reconcile
StepRank(p, c) ==
  IF c.kind = "GenAIDeployment" THEN (IF c.op = "get" THEN 0 ELSE 2)
  ELSE IF c.kind = "RayCluster" THEN 1
  ELSE IF c.name = SaisName(p) THEN 3 ELSE 4

\* C20: the calls of a pass are in the order descriptor, compute cluster,
\* descriptor status, service-A, service-B; the compute cluster and the
\* status are addressed only, and then before any service call, when the
\* sub-spec is enabled; a pass that found the descriptor and returned
\* success has addressed service-A and service-B, its last call being a
\* successful one on service-B; and a pass that found the descriptor and
\* returned a failure ends on the failed call.
C20_StepOrder ==
  \A p \in Procs :
    /\ \A i, j \in 1..Len(calls[p]) :
         i < j => StepRank(p, calls[p][i]) <= StepRank(p, calls[p][j])
    /\ (Len(calls[p]) >= 1 /\ calls[p][1].res = "ok") =>
         LET ranks == {StepRank(p, calls[p][i]) : i \in 1..Len(calls[p])}
             en == genAIDeployment[p].spec.RayService.Enabled
         IN  /\ calls[p][1].op = "get" /\ calls[p][1].kind = "GenAIDeployment"
             /\ ~en => ranks \cap {1, 2} = {}
             /\ (en /\ ranks \cap {3, 4} # {}) => {1, 2} \subseteq ranks
             /\ 4 \in ranks => 3 \in ranks
             /\ (pc[p] = "done" /\ result[p] = "ok") =>
                  /\ {3, 4} \subseteq ranks
                  /\ StepRank(p, calls[p][Len(calls[p])]) = 4
                  /\ calls[p][Len(calls[p])].res = "ok"
             /\ (pc[p] = "done" /\ result[p] = "err") =>
                  /\ calls[p][Len(calls[p])].res # "ok"
                  /\ calls[p][Len(calls[p])].op = "get" =>
                       calls[p][Len(calls[p])].res # "NotFound"

\* a pass with the compute cluster disabled has returned success after
\* addressing service-A and then service-B, and nothing else
C20_Witness ==
  \E p \in Procs :
    /\ pc[p] = "done" /\ result[p] = "ok"
    /\ genAIDeployment[p] # NoObj /\ ~genAIDeployment[p].spec.RayService.Enabled
    /\ {StepRank(p, calls[p][i]) : i \in 1..Len(calls[p])} = {0, 3, 4}
    /\ ctx[p].edit.n = 1
====
